---- MODULE Spec2Model ----
(***************************************************************************)
(* Snippet API of django_REST_API_sample: the Snippet model                *)
(* (snippets/models.py), its serializer (snippets/serializers.py), the     *)
(* object permission (snippets/permissions.py) and the generic views       *)
(* SnippetList / SnippetDetail (snippets/views.py).  One action per HTTP   *)
(* handler; an action is the whole request: authentication, permission     *)
(* checks, lookup, validation, the model's save() and the response.        *)
(*                                                                         *)
(* Texts are sequences of one-character strings, so that the serializer's  *)
(* whitespace trimming and blank check are computed, not assumed.          *)
(***************************************************************************)
EXTENDS Integers, Sequences, FiniteSets, TLC

VARIABLES snippets, next_id, clock, auth_user, req, resp, inflight

vars == <<snippets, next_id, clock, auth_user, req, resp, inflight>>

\* ------------------------------------------------------------------ bounds
\* Largest number of snippets ever inserted (caps the autoincrement key).
MaxSnippets == 2

\* Snippets created while requests overlap.
MaxConcurrentSnippets == 1

\* Rows that a late save() may insert again under a deleted key in one run.
MaxReinserts == 1

\* ------------------------------------------------------- program constants
title_max_length == 100

\* The request's user when no credentials are sent (AnonymousUser).
AnonymousUser == 0

\* auth.User rows present from the start (createsuperuser), id -> username.
Users == {1, 2}

username(u) == IF u = 1 THEN "admin" ELSE "bob"

\* Keys of LANGUAGE_CHOICES / STYLE_CHOICES (a sample of the pygments catalog).
LANGUAGE_CHOICES == {"python", "javascript"}

STYLE_CHOICES == {"friendly", "monokai"}

\* permissions.SAFE_METHODS
SAFE_METHODS == {"GET", "HEAD", "OPTIONS"}

\* The methods a client sends to write.
UnsafeMethods == {"POST", "PUT", "PATCH", "DELETE"}

\* Authentication classes in effect, in order (the framework defaults).
authentication_classes == <<"SessionAuthentication", "BasicAuthentication">>

\* --------------------------------------------------------------- the model
\* A serializer whose key, owner and creation time are writable too.
writable_fields_all ==
    {"title", "code", "linenos", "language", "style", "id", "owner", "created"}

\* Columns of Snippet a request body can set through SnippetSerializer:
\* Meta.fields minus the read-only `id` and `owner`.
writable_fields == {"title", "code", "linenos", "language", "style"}

\* Field defaults that turn line numbers on.
Snippet_defaults_linenos ==
    [title |-> <<>>, linenos |-> TRUE, language |-> "python",
     style |-> "friendly", highlighted |-> <<>>]

\* Field defaults of a new Snippet instance (code has none).
Snippet_defaults ==
    [title |-> <<>>, linenos |-> FALSE, language |-> "python",
     style |-> "friendly", highlighted |-> <<>>]

\* pygments.lexers.get_lexer_by_name as save() uses it.
get_lexer_by_name(language) ==
    CASE language = "python" -> "PythonLexer"
      [] language = "javascript" -> "JavascriptLexer"
      [] OTHER -> "ClassNotFound"

\* HtmlFormatter(style=..., linenos=..., full=True, **options) as built in save().
HtmlFormatter(style, linenos, title) ==
    [style |-> style,
     linenos |-> IF linenos THEN "table" ELSE "False",
     full |-> TRUE,
     title |-> IF title # <<>> THEN title ELSE <<>>]

\* pygments.highlight(code, lexer, formatter): a full HTML document that
\* depends on every argument.
highlight(code, lexer, formatter) ==
    <<"<!DOCTYPE html>", formatter.title, formatter.style,
      formatter.linenos, lexer, code>>

\* A variant of save() that stores the instance without rendering it.
Snippet_save_stale(self) == self

\* Snippet.save(): render `highlighted` from the instance's own fields; the
\* result is the row written to the table.
Snippet_save(self) ==
    [self EXCEPT !.highlighted =
        highlight(self.code, get_lexer_by_name(self.language),
                  HtmlFormatter(self.style, self.linenos, self.title))]


\* The sort key of Snippet.Meta.ordering read backwards ('-created').
ordering_key_desc(row) == 0 - row.created

\* Snippet.Meta.ordering = ['created']: the sort key of a row.
ordering_key(row) == row.created

\* Snippet.objects.all() evaluated: the rows of `table` with ids in S, in
\* Meta.ordering.
RECURSIVE queryset_all(_, _)
queryset_all(table, S) ==
    IF S = {} THEN <<>>
    ELSE LET m == CHOOSE i \in S :
                    \A j \in S : ordering_key(table[i]) <= ordering_key(table[j])
         IN <<table[m]>> \o queryset_all(table, S \ {m})

\* The page of a list response: the whole queryset (no pagination is set).
paginate_queryset(rows) == rows

\* ---------------------------------------------------------- the serializer
\* str.strip() of a text, as CharField(trim_whitespace=True) applies it.
RECURSIVE lstrip(_)
lstrip(t) == IF t # <<>> /\ Head(t) = " " THEN lstrip(Tail(t)) ELSE t

RECURSIVE rstrip(_)
rstrip(t) ==
    IF t # <<>> /\ t[Len(t)] = " " THEN rstrip(SubSeq(t, 1, Len(t) - 1)) ELSE t

strip(t) == rstrip(lstrip(t))

\* to_internal_value of one writable field.
to_internal_value(f, v) == IF f \in {"title", "code"} THEN strip(v) ELSE v

\* A choice check that lets every value through.
valid_choice_any(f, v) == TRUE

\* ChoiceField validation of `language` and `style` against the model's choices.
valid_choice(f, v) ==
    IF f = "language" THEN v \in LANGUAGE_CHOICES ELSE v \in STYLE_CHOICES

\* A validation that checks `code` and `title` only and forgets the choices.
serializer_errors_no_choices(data, partial) ==
    {f \in writable_fields :
        \/ f = "code" /\ f \notin DOMAIN data /\ ~partial
        \/ f = "code" /\ f \in DOMAIN data /\ strip(data[f]) = <<>>
        \/ f = "title" /\ f \in DOMAIN data
               /\ Len(strip(data[f])) > title_max_length}

\* Field errors of SnippetSerializer(data=data, partial=partial).is_valid():
\* the names of the fields that fail validation.
serializer_errors(data, partial) ==
    {f \in writable_fields :
        \/ f = "code" /\ f \notin DOMAIN data /\ ~partial
        \/ f = "code" /\ f \in DOMAIN data /\ strip(data[f]) = <<>>
        \/ f = "title" /\ f \in DOMAIN data
               /\ Len(strip(data[f])) > title_max_length
        \/ f \in {"language", "style"} /\ f \in DOMAIN data
               /\ ~valid_choice(f, data[f])}

\* serializer.validated_data: the writable fields present in the body, after
\* conversion; read-only and unknown keys of the body are dropped.
validated_data(data) ==
    [f \in writable_fields \cap DOMAIN data |-> to_internal_value(f, data[f])]

\* SnippetSerializer.to_representation: the wire form of a row (Meta.fields).
to_representation(row) ==
    [id |-> row.id, owner |-> username(row.owner), title |-> row.title,
     code |-> row.code, linenos |-> row.linenos, language |-> row.language,
     style |-> row.style]

\* An update that resets every omitted field to the model default.
serializer_update_reset(instance, validated) ==
    Snippet_save(
        [f \in DOMAIN instance |->
            IF f \in DOMAIN validated THEN validated[f]
            ELSE IF f \in DOMAIN Snippet_defaults THEN Snippet_defaults[f]
            ELSE instance[f]])

\* ModelSerializer.update(instance, validated_data): set each validated
\* attribute on the instance, then instance.save().
serializer_update(instance, validated) ==
    Snippet_save(
        [f \in DOMAIN instance |->
            IF f \in DOMAIN validated THEN validated[f] ELSE instance[f]])

\* ModelSerializer.create(validated_data) with the extra keyword `owner`:
\* Snippet(**validated_data, owner=owner) over the field defaults, then save(),
\* which assigns the key `pk` and the creation time `now`.
serializer_create(validated, owner, pk, now) ==
    Snippet_save(
        [id |-> pk, created |-> now, owner |-> owner,
         title |-> IF "title" \in DOMAIN validated THEN validated["title"]
                   ELSE Snippet_defaults.title,
         code |-> validated["code"],
         linenos |-> IF "linenos" \in DOMAIN validated THEN validated["linenos"]
                     ELSE Snippet_defaults.linenos,
         language |-> IF "language" \in DOMAIN validated THEN validated["language"]
                      ELSE Snippet_defaults.language,
         style |-> IF "style" \in DOMAIN validated THEN validated["style"]
                   ELSE Snippet_defaults.style,
         highlighted |-> Snippet_defaults.highlighted])

\* ------------------------------------------------------------- permissions
\* request.user.is_authenticated
is_authenticated(user) == user # AnonymousUser

\* A view-level permission that asks for an identity on every method.
IsAuthenticated(request) == is_authenticated(request.user)

\* permissions.IsAuthenticatedOrReadOnly.has_permission (view level).
IsAuthenticatedOrReadOnly(request) ==
    request.method \in SAFE_METHODS \/ is_authenticated(request.user)

\* An object permission that lets every request through.
has_object_permission_any(request, obj) == TRUE

\* IsOwnerOrReadOnly.has_object_permission
has_object_permission(request, obj) ==
    IF request.method \in SAFE_METHODS THEN TRUE
    ELSE obj.owner = request.user

\* The WWW-Authenticate header an authentication class offers ("" for none).
authenticate_header(cls) ==
    IF cls = "BasicAuthentication" THEN "Basic realm=api" ELSE ""

\* The header taken from the last authentication class instead of the first.
get_authenticate_header_last ==
    authenticate_header(authentication_classes[Len(authentication_classes)])

\* APIView.get_authenticate_header: the header of the first authentication
\* class decides how a missing identity is reported.
get_authenticate_header == authenticate_header(authentication_classes[1])

\* APIView.permission_denied: which exception a failed permission raises.
permission_denied(request) ==
    IF ~is_authenticated(request.user) THEN "NotAuthenticated"
    ELSE "PermissionDenied"

\* The status code the exception handler gives an exception.
status_code(exc) ==
    CASE exc = "NotAuthenticated" ->
             IF get_authenticate_header # "" THEN 401 ELSE 403
      [] exc = "PermissionDenied" -> 403
      [] exc = "Http404" -> 404
      [] exc = "ValidationError" -> 400
      [] exc = "MethodNotAllowed" -> 405

\* The detail text of an exception's response.
detail(exc) ==
    CASE exc = "NotAuthenticated" ->
             "Authentication credentials were not provided."
      [] exc = "PermissionDenied" ->
             "You do not have permission to perform this action."
      [] exc = "Http404" -> "Not found."
      [] exc = "ValidationError" -> "Invalid input."
      [] exc = "MethodNotAllowed" -> "Method not allowed."

\* ------------------------------------------------------------ the responses
Response(status, data) ==
    [status |-> status, data |-> data, detail |-> "", errors |-> {}]

ErrorResponse(exc, errors) ==
    [status |-> status_code(exc), data |-> <<>>, detail |-> detail(exc),
     errors |-> errors]

\* ------------------------------------------------------------- the requests
NoBody == [f \in {} |-> TRUE]

\* Request bodies the clients send: the empty object, single fields, every
\* writable field at once, texts padded with blanks, a blank code, values
\* outside the choices next to valid ones, and read-only keys.
RequestBodies ==
    { NoBody,
      "code" :> <<" ", "a">>,
      "code" :> <<" ">>,
      "title" :> <<"t", " ">>,
      ("title" :> <<>>) @@ ("code" :> <<"a">>) @@ ("linenos" :> FALSE)
          @@ ("language" :> "python") @@ ("style" :> "friendly"),
      ("title" :> <<"t">>) @@ ("code" :> <<"b">>) @@ ("linenos" :> TRUE)
          @@ ("language" :> "javascript") @@ ("style" :> "monokai"),
      ("code" :> <<"a">>) @@ ("language" :> "python"),
      ("code" :> <<"a">>) @@ ("language" :> "klingon"),
      ("title" :> <<"t">>) @@ ("style" :> "neon"),
      ("code" :> <<"a">>) @@ ("id" :> 99) @@ ("owner" :> 2) @@ ("created" :> 0)
          @@ ("highlighted" :> <<"<script>">>) }

\* Identities a request can carry: a stored user, or none.
Requesters == auth_user \cup {AnonymousUser}

Request(method, view, pk, user, data) ==
    [method |-> method, view |-> view, pk |-> pk, user |-> user, data |-> data]

\* No request is being served: the request and response objects of the last
\* cycle are gone.
NoRequest == Request("NONE", "none", 0, AnonymousUser, NoBody)

NoResponse == Response(0, <<>>)

Idle == req = NoRequest

\* ---------------------------------------------------------------- the views
\* A perform_create that takes the owner from the request body when it has one.
perform_create_from_body(validated, request, pk, now) ==
    serializer_create(validated,
        IF "owner" \in DOMAIN request.data THEN request.data["owner"]
        ELSE request.user, pk, now)

\* SnippetList.perform_create: serializer.save(owner=self.request.user)
perform_create(validated, request, pk, now) ==
    serializer_create(validated, request.user, pk, now)

\* A destroy that leaves the row in the table.
perform_destroy_keep(table, pk) == table

\* DestroyModelMixin.perform_destroy: instance.delete()
perform_destroy(table, pk) == [i \in DOMAIN table \ {pk} |-> table[i]]

\* A view without view-level permission classes.
initial_AllowAny(request) == "ok"

\* APIView.initial for SnippetList and SnippetDetail: the view-level
\* permission check that runs before the handler; "ok" or the exception.
initial(request) ==
    IF ~IsAuthenticatedOrReadOnly(request) THEN permission_denied(request)
    ELSE "ok"

\* A lookup that skips check_object_permissions.
get_object_unchecked(request) ==
    IF request.pk \notin DOMAIN snippets THEN "Http404" ELSE "ok"

\* GenericAPIView.get_object: lookup by pk, then the object permissions;
\* "ok" or the exception.
get_object(request) ==
    IF request.pk \notin DOMAIN snippets THEN "Http404"
    ELSE IF ~has_object_permission(request, snippets[request.pk])
         THEN permission_denied(request)
    ELSE "ok"

\* GET /snippets/ : ListCreateAPIView.list
SnippetList_get(user) ==
    LET request == Request("GET", "snippet-list", 0, user, NoBody)
        rows == paginate_queryset(queryset_all(snippets, DOMAIN snippets))
    IN /\ Idle
       /\ req' = request
       /\ resp' = Response(200, [i \in 1..Len(rows) |-> to_representation(rows[i])])
       /\ UNCHANGED <<snippets, next_id, clock, auth_user, inflight>>

\* POST /snippets/ : ListCreateAPIView.create
SnippetList_post(user, data) ==
    LET request == Request("POST", "snippet-list", 0, user, data)
        errors == serializer_errors(data, FALSE)
        exc == IF initial(request) # "ok" THEN initial(request)
               ELSE IF errors # {} THEN "ValidationError"
               ELSE "ok"
        instance == perform_create(validated_data(data), request, next_id,
                                   clock + 1)
    IN /\ Idle
       /\ req' = request
       /\ IF exc = "ok"
          THEN /\ next_id <= MaxSnippets
               /\ snippets' = (next_id :> instance) @@ snippets
               /\ next_id' = next_id + 1
               /\ clock' = clock + 1
               /\ resp' = Response(201, <<to_representation(instance)>>)
          ELSE /\ resp' = ErrorResponse(exc,
                              IF exc = "ValidationError" THEN errors ELSE {})
               /\ UNCHANGED <<snippets, next_id, clock>>
       /\ UNCHANGED <<auth_user, inflight>>

\* GET /snippets/{pk}/ : RetrieveUpdateDestroyAPIView.retrieve
SnippetDetail_get(user, pk) ==
    LET request == Request("GET", "snippet-detail", pk, user, NoBody)
        exc == IF initial(request) # "ok" THEN initial(request)
               ELSE get_object(request)
    IN /\ Idle
       /\ req' = request
       /\ resp' = IF exc = "ok"
                  THEN Response(200, <<to_representation(snippets[pk])>>)
                  ELSE ErrorResponse(exc, {})
       /\ UNCHANGED <<snippets, next_id, clock, auth_user, inflight>>

\* An update that saves the fields that passed validation before it reports
\* the ones that failed.
update_saves_valid_fields(request, partial) ==
    LET errors == serializer_errors(request.data, partial)
        exc == IF initial(request) # "ok" THEN initial(request)
               ELSE IF get_object(request) # "ok" THEN get_object(request)
               ELSE "ok"
        valid == [f \in DOMAIN validated_data(request.data) \ errors |->
                     validated_data(request.data)[f]]
        instance == serializer_update(snippets[request.pk], valid)
    IN /\ Idle
       /\ req' = request
       /\ IF exc = "ok"
          THEN /\ snippets' = [snippets EXCEPT ![request.pk] = instance]
               /\ resp' = IF errors = {}
                          THEN Response(200, <<to_representation(instance)>>)
                          ELSE ErrorResponse("ValidationError", errors)
          ELSE /\ resp' = ErrorResponse(exc, {})
               /\ UNCHANGED snippets
       /\ UNCHANGED <<next_id, clock, auth_user, inflight>>

\* UpdateModelMixin.update, shared by PUT (partial = FALSE) and PATCH.
update(request, partial) ==
    LET errors == serializer_errors(request.data, partial)
        exc == IF initial(request) # "ok" THEN initial(request)
               ELSE IF get_object(request) # "ok" THEN get_object(request)
               ELSE IF errors # {} THEN "ValidationError"
               ELSE "ok"
        instance == serializer_update(snippets[request.pk],
                                      validated_data(request.data))
    IN /\ Idle
       /\ req' = request
       /\ IF exc = "ok"
          THEN /\ snippets' = [snippets EXCEPT ![request.pk] = instance]
               /\ resp' = Response(200, <<to_representation(instance)>>)
          ELSE /\ resp' = ErrorResponse(exc,
                              IF exc = "ValidationError" THEN errors ELSE {})
               /\ UNCHANGED snippets
       /\ UNCHANGED <<next_id, clock, auth_user, inflight>>

\* PUT /snippets/{pk}/ : RetrieveUpdateDestroyAPIView.put
SnippetDetail_put(user, pk, data) ==
    update(Request("PUT", "snippet-detail", pk, user, data), FALSE)

\* PATCH /snippets/{pk}/ : RetrieveUpdateDestroyAPIView.patch
SnippetDetail_patch(user, pk, data) ==
    update(Request("PATCH", "snippet-detail", pk, user, data), TRUE)

\* DELETE /snippets/{pk}/ : RetrieveUpdateDestroyAPIView.destroy
SnippetDetail_delete(user, pk) ==
    LET request == Request("DELETE", "snippet-detail", pk, user, NoBody)
        exc == IF initial(request) # "ok" THEN initial(request)
               ELSE get_object(request)
    IN /\ Idle
       /\ req' = request
       /\ IF exc = "ok"
          THEN /\ snippets' = perform_destroy(snippets, pk)
               /\ resp' = Response(204, <<>>)
          ELSE /\ resp' = ErrorResponse(exc, {})
               /\ UNCHANGED snippets
       /\ UNCHANGED <<next_id, clock, auth_user, inflight>>

\* A reverse relation that forgets the owner filter.
related_snippets_all(table, user) == queryset_all(table, DOMAIN table)

\* user.snippets.all(): the reverse side of Snippet.owner
\* (related_name='snippets'), the rows owned by `user` in Meta.ordering.
related_snippets(table, user) ==
    queryset_all(table, {i \in DOMAIN table : table[i].owner = user})

\* UserSerializer.to_representation: id, username and the primary keys of
\* the user's snippets.
User_to_representation(table, user) ==
    LET rows == related_snippets(table, user)
    IN [id |-> user, username |-> username(user),
        snippets |-> [i \in 1..Len(rows) |-> rows[i].id]]

\* User.objects.all() evaluated: auth.User has no default ordering, so the
\* rows come in any order.
User_objects_all(S) ==
    {q \in [1..Cardinality(S) -> S] : \A i, j \in 1..Cardinality(S) :
                                          q[i] = q[j] => i = j}

\* GET /users/ : ListAPIView.list (no permission_classes: open to all)
UserList_get(user) ==
    \E rows \in User_objects_all(auth_user) :
        /\ Idle
        /\ req' = Request("GET", "user-list", 0, user, NoBody)
        /\ resp' = Response(200,
               [i \in 1..Len(rows) |-> User_to_representation(snippets, rows[i])])
        /\ UNCHANGED <<snippets, next_id, clock, auth_user, inflight>>

\* GET /users/{pk}/ : RetrieveAPIView.retrieve
UserDetail_get(user, pk) ==
    /\ Idle
    /\ req' = Request("GET", "user-detail", pk, user, NoBody)
    /\ resp' = IF pk \in auth_user
               THEN Response(200, <<User_to_representation(snippets, pk)>>)
               ELSE ErrorResponse("Http404", {})
    /\ UNCHANGED <<snippets, next_id, clock, auth_user, inflight>>

\* Bodies sent to the user routes: a list of snippet keys for the writable
\* `snippets` field.
UserBodies == { "snippets" :> <<1>> }

\* User views that also offer the handlers of UpdateModelMixin.
User_handler_update(view, method) ==
    IF method = "GET" THEN "get"
    ELSE IF view = "user-detail" /\ method \in {"PUT", "PATCH"} THEN "update"
    ELSE "http_method_not_allowed"

\* APIView.dispatch on UserList (ListAPIView) and UserDetail
\* (RetrieveAPIView): getattr(self, method.lower(),
\* self.http_method_not_allowed); both classes define `get` only.
User_handler(view, method) ==
    IF method = "GET" THEN "get" ELSE "http_method_not_allowed"

\* What UserSerializer would save for its writable `snippets` field,
\* PrimaryKeyRelatedField(many=True, queryset=Snippet.objects.all()):
\* user.snippets.set(...) makes `user` the owner of the listed snippets.
UserSerializer_update(table, user, data) ==
    [i \in DOMAIN table |->
        IF "snippets" \in DOMAIN data
               /\ \E k \in DOMAIN data["snippets"] : data["snippets"][k] = i
        THEN [table[i] EXCEPT !.owner = user]
        ELSE table[i]]

\* POST, PUT, PATCH or DELETE on /users/ or /users/{pk}/ : dispatched to the
\* handler the view has for the method.
User_dispatch(user, view, pk, method, data) ==
    LET request == Request(method, view, pk, user, data)
        handler == User_handler(view, method)
    IN /\ Idle
       /\ method # "GET"
       /\ req' = request
       /\ IF handler = "update" /\ pk \in auth_user
          THEN /\ snippets' = UserSerializer_update(snippets, pk, data)
               /\ resp' = Response(200,
                      <<User_to_representation(
                            UserSerializer_update(snippets, pk, data), pk)>>)
          ELSE /\ resp' = ErrorResponse(
                              IF handler = "update" THEN "Http404"
                              ELSE "MethodNotAllowed", {})
               /\ UNCHANGED snippets
       /\ UNCHANGED <<next_id, clock, auth_user, inflight>>

UserList_other(user, method, data) ==
    User_dispatch(user, "user-list", 0, method, data)

UserDetail_other(user, pk, method, data) ==
    User_dispatch(user, "user-detail", pk, method, data)

\* A foreign key that leaves the rows of a removed user in place.
on_delete_DO_NOTHING(table, user) == table

\* on_delete=models.CASCADE of Snippet.owner: removing a user removes the
\* snippets that user owns.
on_delete_CASCADE(table, user) ==
    [i \in {j \in DOMAIN table : table[j].owner # user} |-> table[i]]

\* A user is removed through the admin site (path('admin/', ...)); this is
\* not a request to the snippet API.
admin_delete_user(user) ==
    /\ Idle
    /\ user \in auth_user
    /\ auth_user' = auth_user \ {user}
    /\ snippets' = on_delete_CASCADE(snippets, user)
    /\ UNCHANGED <<next_id, clock, req, resp, inflight>>

\* The response is returned to the client and the request cycle ends; the
\* next request is served after it (requests are served one at a time).
finalize_response ==
    /\ ~Idle
    /\ req' = NoRequest
    /\ resp' = NoResponse
    /\ UNCHANGED <<snippets, next_id, clock, auth_user, inflight>>

\* ------------------------------------------------------------ the routes
\* The views that snippets/views.py defines at module level.
views_module == {"SnippetList", "SnippetDetail", "UserList", "UserDetail"}

\* urlpatterns of snippets/urls.py: each route with the attribute of
\* `views` it is bound to.
urlpatterns ==
    << [route |-> "", view |-> "api_root", name |-> ""],
       [route |-> "snippets/", view |-> "SnippetList", name |-> "snippet-list"],
       [route |-> "snippets/<int:pk>/", view |-> "SnippetDetail",
        name |-> "snippet-detail"],
       [route |-> "snippets/<int:pk>/highlight/", view |-> "SnippetHighlight",
        name |-> "snippet-highlight"],
       [route |-> "users/", view |-> "UserList", name |-> "user-list"],
       [route |-> "users/<int:pk>/", view |-> "UserDetail",
        name |-> "user-detail"] >>

\* ------------------------------------------------- requests that overlap
\* Request threads of the server that can be at work at the same time.
Workers == {1, 2}

\* A thread that serves no request.
IdleWorker == [pc |-> "idle"]

\* Each request thread runs its handler in steps: the dispatch reads (checks
\* the permissions, loads the row, validates the body and sets the attributes
\* on the instance in memory), a later step writes, the last one returns.
Worker(pc, request, instance, status) ==
    [pc |-> pc, request |-> request, instance |-> instance, status |-> status]

\* The thread holds an instance to write.
Loaded(request, instance) == Worker("loaded", request, instance, 0)

\* The thread has produced its response.
Done(status) == Worker("done", NoRequest, NoBody, status)

\* The thread has saved its update and holds the 200 response to its request.
Updated(request) == Worker("done", request, NoBody, 200)

\* Bodies of the overlapping requests: one writes the title, the other the
\* code, so two updates can write disjoint fields.
ConcurrentBodies ==
    { "title" :> <<"t", " ">>,
      "code" :> <<" ", "a">> }

\* The number of rows that save() has inserted again under a key that had
\* been deleted.
reinserted == clock - (next_id - 1)

\* ModelSerializer.update up to, not including, instance.save(): the
\* validated attributes set on the loaded instance.
serializer_setattr(instance, validated) ==
    [f \in DOMAIN instance |->
        IF f \in DOMAIN validated THEN validated[f] ELSE instance[f]]

\* A save that leaves the `highlighted` column of an existing row to a
\* statement of its own.
Model_save_columns(table, row, now) ==
    IF row.id \in DOMAIN table
    THEN [table EXCEPT ![row.id] =
             [row EXCEPT !.highlighted = table[row.id].highlighted]]
    ELSE (row.id :> [row EXCEPT !.created = now]) @@ table

\* super().save() at the end of Snippet.save(): Model.save of an instance
\* that has a key writes every column in one UPDATE and, when no row has
\* that key, INSERTs the row (auto_now_add then sets `created`).
Model_save(table, row, now) ==
    IF row.id \in DOMAIN table
    THEN [table EXCEPT ![row.id] = row]
    ELSE (row.id :> [row EXCEPT !.created = now]) @@ table

\* POST /snippets/ up to serializer.save(): permissions and validation.
SnippetList_post_dispatch(w, user, data) ==
    LET request == Request("POST", "snippet-list", 0, user, data)
        errors == serializer_errors(data, FALSE)
        exc == IF initial(request) # "ok" THEN initial(request)
               ELSE IF errors # {} THEN "ValidationError"
               ELSE "ok"
    IN /\ inflight[w].pc = "idle"
       /\ inflight' = [inflight EXCEPT ![w] =
              IF exc = "ok"
              THEN Loaded(request, validated_data(data))
              ELSE Done(status_code(exc))]
       /\ UNCHANGED <<snippets, next_id, clock, auth_user, req, resp>>

\* POST /snippets/ : perform_create, the INSERT of the new row.
SnippetList_post_save(w) ==
    LET self == inflight[w]
        instance == perform_create(self.instance, self.request, next_id,
                                   clock + 1)
    IN /\ self.pc = "loaded"
       /\ self.request.method = "POST"
       /\ next_id <= MaxConcurrentSnippets
       /\ snippets' = (next_id :> instance) @@ snippets
       /\ next_id' = next_id + 1
       /\ clock' = clock + 1
       /\ inflight' = [inflight EXCEPT ![w] = Done(201)]
       /\ UNCHANGED <<auth_user, req, resp>>

\* PUT or PATCH /snippets/{pk}/ up to instance.save(): permissions,
\* get_object, validation and the attributes set on the loaded instance.
update_dispatch(w, request, partial) ==
    LET errors == serializer_errors(request.data, partial)
        exc == IF initial(request) # "ok" THEN initial(request)
               ELSE IF get_object(request) # "ok" THEN get_object(request)
               ELSE IF errors # {} THEN "ValidationError"
               ELSE "ok"
    IN /\ inflight[w].pc = "idle"
       /\ inflight' = [inflight EXCEPT ![w] =
              IF exc = "ok"
              THEN Loaded(request,
                          serializer_setattr(snippets[request.pk],
                                             validated_data(request.data)))
              ELSE Done(status_code(exc))]
       /\ UNCHANGED <<snippets, next_id, clock, auth_user, req, resp>>

SnippetDetail_put_dispatch(w, user, pk, data) ==
    update_dispatch(w, Request("PUT", "snippet-detail", pk, user, data), FALSE)

SnippetDetail_patch_dispatch(w, user, pk, data) ==
    update_dispatch(w, Request("PATCH", "snippet-detail", pk, user, data), TRUE)

\* PUT or PATCH /snippets/{pk}/ : instance.save() of the loaded instance.
update_save(w) ==
    LET self == inflight[w]
        row == Snippet_save(self.instance)
    IN /\ self.pc = "loaded"
       /\ self.request.method \in {"PUT", "PATCH"}
       /\ row.id \notin DOMAIN snippets => reinserted < MaxReinserts
       /\ snippets' = Model_save(snippets, row, clock + 1)
       /\ clock' = IF row.id \in DOMAIN snippets THEN clock ELSE clock + 1
       /\ inflight' = [inflight EXCEPT ![w] = Updated(self.request)]
       /\ UNCHANGED <<next_id, auth_user, req, resp>>

\* DELETE /snippets/{pk}/ up to instance.delete(): permissions and get_object.
SnippetDetail_delete_dispatch(w, user, pk) ==
    LET request == Request("DELETE", "snippet-detail", pk, user, NoBody)
        exc == IF initial(request) # "ok" THEN initial(request)
               ELSE get_object(request)
    IN /\ inflight[w].pc = "idle"
       /\ inflight' = [inflight EXCEPT ![w] =
              IF exc = "ok"
              THEN Loaded(request, snippets[pk])
              ELSE Done(status_code(exc))]
       /\ UNCHANGED <<snippets, next_id, clock, auth_user, req, resp>>

\* DELETE /snippets/{pk}/ : perform_destroy, the DELETE of the row.
SnippetDetail_delete_destroy(w) ==
    LET self == inflight[w]
    IN /\ self.pc = "loaded"
       /\ self.request.method = "DELETE"
       /\ snippets' = perform_destroy(snippets, self.request.pk)
       /\ inflight' = [inflight EXCEPT ![w] = Done(204)]
       /\ UNCHANGED <<next_id, clock, auth_user, req, resp>>

\* The thread returns its response and is free for the next request.
worker_return(w) ==
    /\ inflight[w].pc = "done"
    /\ inflight' = [inflight EXCEPT ![w] = IdleWorker]
    /\ UNCHANGED <<snippets, next_id, clock, auth_user, req, resp>>

\* ------------------------------------------------------- the specification
\* Primary keys a client asks for.
Pks == 1..MaxSnippets



\* An empty snippet table, the users created beforehand, no request yet.
Init ==
    /\ snippets = [i \in {} |-> TRUE]
    /\ next_id = 1
    /\ clock = 0
    /\ auth_user = Users
    /\ req = NoRequest
    /\ resp = NoResponse
    /\ inflight = [w \in Workers |-> IdleWorker]

Next ==
    \/ \E u \in Requesters : SnippetList_get(u)
    \/ \E u \in Requesters, d \in RequestBodies : SnippetList_post(u, d)
    \/ \E u \in Requesters, pk \in Pks : SnippetDetail_get(u, pk)
    \/ \E u \in Requesters, pk \in Pks, d \in RequestBodies :
           SnippetDetail_put(u, pk, d)
    \/ \E u \in Requesters, pk \in Pks, d \in RequestBodies :
           SnippetDetail_patch(u, pk, d)
    \/ \E u \in Requesters, pk \in Pks : SnippetDetail_delete(u, pk)
    \/ \E u \in Requesters : UserList_get(u)
    \/ \E u \in Requesters, pk \in Users : UserDetail_get(u, pk)
    \/ \E u \in Requesters, m \in UnsafeMethods, d \in UserBodies :
           UserList_other(u, m, d)
    \/ \E u \in Requesters, pk \in Users, m \in UnsafeMethods, d \in UserBodies :
           UserDetail_other(u, pk, m, d)
    \/ \E u \in Users : admin_delete_user(u)
    \/ finalize_response

Spec == Init /\ [][Next]_vars

\* Requests served by threads whose steps interleave.
ConcurrentPks == 1..MaxConcurrentSnippets

NextConc ==
    \E w \in Workers :
        \/ \E u \in Requesters, d \in ConcurrentBodies :
               SnippetList_post_dispatch(w, u, d)
        \/ SnippetList_post_save(w)
        \/ \E u \in Requesters, pk \in ConcurrentPks, d \in ConcurrentBodies :
               SnippetDetail_put_dispatch(w, u, pk, d)
        \/ \E u \in Requesters, pk \in ConcurrentPks, d \in ConcurrentBodies :
               SnippetDetail_patch_dispatch(w, u, pk, d)
        \/ update_save(w)
        \/ \E u \in Requesters, pk \in ConcurrentPks : SnippetDetail_delete_dispatch(w, u, pk)
        \/ SnippetDetail_delete_destroy(w)
        \/ worker_return(w)

SpecConc == Init /\ [][NextConc]_vars

\* ================================================================ claims
MutatingDetailMethods == {"PUT", "PATCH", "DELETE"}

\* The request being served is a step of a handler from the idle state.
Served == Idle /\ req' # NoRequest

\* C1: a PUT, PATCH or DELETE on an existing snippet by an authenticated user
\* succeeds only when that user is the snippet's owner; any other
\* authenticated user gets 403 and the table is untouched.
C1_OnlyOwnerMutates ==
    [][(/\ Served
        /\ req'.view = "snippet-detail"
        /\ req'.method \in MutatingDetailMethods
        /\ req'.pk \in DOMAIN snippets
        /\ is_authenticated(req'.user))
       => /\ resp'.status \in {200, 204}
                => req'.user = snippets[req'.pk].owner
          /\ req'.user # snippets[req'.pk].owner
                => resp'.status = 403 /\ snippets' = snippets]_vars

\* An authenticated user who is not the owner was refused a mutation.
C1_Witness ==
    /\ req.view = "snippet-detail"
    /\ req.method \in MutatingDetailMethods
    /\ req.pk \in DOMAIN snippets
    /\ is_authenticated(req.user)
    /\ snippets[req.pk].owner # req.user
    /\ resp.status = 403

\* The routes of the snippet views.
SnippetRoutes == {"snippet-list", "snippet-detail"}

\* C2 as stated: every mutating request to a snippet route without an
\* authenticated identity is answered 401.
C2_AnonymousGets401 ==
    (/\ req.view \in SnippetRoutes
     /\ req.method \in UnsafeMethods
     /\ ~is_authenticated(req.user))
        => resp.status = 401

\* C2 amended: every mutating request to a snippet route without an
\* authenticated identity is refused with status 403 and the "credentials
\* were not provided" detail.
C2_AnonymousRefused403 ==
    (/\ req.view \in SnippetRoutes
     /\ req.method \in UnsafeMethods
     /\ ~is_authenticated(req.user))
        => /\ resp.status = 403
           /\ resp.detail = "Authentication credentials were not provided."

\* A PUT or DELETE without identity on a stored snippet was refused with 403.
C2_Witness ==
    /\ req.view = "snippet-detail"
    /\ req.method \in {"PUT", "DELETE"}
    /\ ~is_authenticated(req.user)
    /\ req.pk \in DOMAIN snippets
    /\ resp.status = 403

\* C3: a successful create by user u stores the new snippet with owner u and
\* reports u as owner, whatever `owner` the body carries.
C3_OwnerIsRequester ==
    [][(Served /\ req'.method = "POST" /\ resp'.status = 201)
       => /\ is_authenticated(req'.user)
          /\ DOMAIN snippets' = DOMAIN snippets \cup {next_id}
          /\ snippets'[next_id].owner = req'.user
          /\ resp'.data[1].owner = username(req'.user)]_vars

\* A create whose body named another user as owner succeeded.
C3_Witness ==
    /\ req.method = "POST"
    /\ resp.status = 201
    /\ "owner" \in DOMAIN req.data
    /\ req.data["owner"] # req.user

\* The rendering of a row's own current fields.
Rendering(row) ==
    highlight(row.code, get_lexer_by_name(row.language),
              HtmlFormatter(row.style, row.linenos, row.title))

\* C4: in every state each stored snippet's `highlighted` is the rendering of
\* that row's current code, language, style, linenos and title; it is never
\* stale and never a value taken from a request body.
C4_HighlightedConsistent ==
    \A id \in DOMAIN snippets :
        /\ snippets[id].highlighted = Rendering(snippets[id])
        /\ snippets[id].highlighted # <<>>
        /\ \A d \in RequestBodies :
              "highlighted" \in DOMAIN d
                  => snippets[id].highlighted # d["highlighted"]

\* An update whose body carried its own `highlighted` was applied.
C4_Witness ==
    /\ req.method \in {"PUT", "PATCH"}
    /\ resp.status = 200
    /\ "highlighted" \in DOMAIN req.data
    /\ snippets[req.pk].title # <<>>

\* C5: no request changes the id, owner or created of a snippet that stays in
\* the table.
C5_ImmutableColumns ==
    [][\A id \in DOMAIN snippets \cap DOMAIN snippets' :
          /\ snippets'[id].id = snippets[id].id
          /\ snippets'[id].id = id
          /\ snippets'[id].owner = snippets[id].owner
          /\ snippets'[id].created = snippets[id].created]_vars

\* An update whose body carried id, owner and created was applied.
C5_Witness ==
    /\ req.method \in {"PUT", "PATCH"}
    /\ resp.status = 200
    /\ {"id", "owner", "created"} \subseteq DOMAIN req.data
    /\ req.data["owner"] # snippets[req.pk].owner

\* The key pk was assigned to a snippet that has since been deleted.
Deleted(pk) == pk < next_id /\ pk \notin DOMAIN snippets

\* C6 as stated: a DELETE answered 204 removes the row, and every later GET,
\* PUT or DELETE on that id is answered 404.
C6_DeletedAlways404 ==
    [][/\ (Served /\ req'.method = "DELETE" /\ resp'.status = 204)
            => req'.pk \notin DOMAIN snippets'
       /\ (Served /\ req'.view = "snippet-detail" /\ Deleted(req'.pk))
            => resp'.status = 404]_vars

\* C6 amended: a DELETE answered 204 removes the row and its id is never
\* used again; every later GET, and every later PUT, PATCH or DELETE by an
\* authenticated user, on that id is answered 404; a later PUT, PATCH or
\* DELETE without identity is refused with 403 before the lookup.
C6_DeletedStaysGone ==
    [][/\ (Served /\ req'.method = "DELETE" /\ resp'.status = 204)
            => req'.pk \notin DOMAIN snippets'
       /\ \A pk \in Pks : Deleted(pk) => (pk < next_id' /\ pk \notin DOMAIN snippets')
       /\ (Served /\ req'.view = "snippet-detail" /\ Deleted(req'.pk))
            => IF req'.method = "GET" \/ is_authenticated(req'.user)
               THEN resp'.status = 404
               ELSE resp'.status = 403]_vars

\* A second DELETE of an id by its former owner was answered 404.
C6_Witness ==
    /\ req.method = "DELETE"
    /\ is_authenticated(req.user)
    /\ req.pk < next_id
    /\ resp.status = 404

\* Every writable value the body carries is one the field accepts.
ValidValues(data) ==
    /\ "code" \in DOMAIN data => strip(data["code"]) # <<>>
    /\ "title" \in DOMAIN data => Len(strip(data["title"])) <= title_max_length
    /\ "language" \in DOMAIN data => data["language"] \in LANGUAGE_CHOICES
    /\ "style" \in DOMAIN data => data["style"] \in STYLE_CHOICES

\* The request served is an update by the owner of an existing snippet whose
\* body carries valid values.
OwnerUpdateServed ==
    /\ Served
    /\ req'.view = "snippet-detail"
    /\ req'.method \in {"PUT", "PATCH"}
    /\ req'.pk \in DOMAIN snippets
    /\ req'.user = snippets[req'.pk].owner
    /\ ValidValues(req'.data)

\* The update was applied: answered 200, each writable field present in the
\* body holds the value sent (texts trimmed), each omitted one its prior
\* value, and no other row changed.
UpdateApplied ==
    /\ resp'.status = 200
    /\ DOMAIN snippets' = DOMAIN snippets
    /\ \A f \in writable_fields :
          snippets'[req'.pk][f] =
              IF f \in DOMAIN req'.data
              THEN (IF f \in {"title", "code"} THEN strip(req'.data[f])
                    ELSE req'.data[f])
              ELSE snippets[req'.pk][f]
    /\ \A id \in DOMAIN snippets \ {req'.pk} : snippets'[id] = snippets[id]

\* C7 as stated: an update by the owner with any subset of the writable
\* fields, validly valued, succeeds and changes exactly the fields present.
C7_AnySubsetUpdates == [][OwnerUpdateServed => UpdateApplied]_vars

\* C7 amended: such an update succeeds and changes exactly the fields present
\* when it is a PATCH, or a PUT whose body contains `code`; a PUT without
\* `code` is answered 400 for the field `code` and changes nothing.
C7_SubsetUpdatesWhenCodeGiven ==
    [][OwnerUpdateServed
       => IF req'.method = "PATCH" \/ "code" \in DOMAIN req'.data
          THEN UpdateApplied
          ELSE /\ resp'.status = 400
               /\ resp'.errors = {"code"}
               /\ snippets' = snippets]_vars

\* A PATCH carrying only `title` was applied to a snippet whose other fields
\* were not at their defaults.
C7_Witness ==
    /\ req.method = "PATCH"
    /\ resp.status = 200
    /\ DOMAIN req.data = {"title"}
    /\ snippets[req.pk].language = "javascript"
    /\ snippets[req.pk].linenos

\* The body's language or style is outside the choices.
InvalidChoice(data) ==
    \/ "language" \in DOMAIN data /\ data["language"] \notin LANGUAGE_CHOICES
    \/ "style" \in DOMAIN data /\ data["style"] \notin STYLE_CHOICES

\* C8 as stated: every update of a stored snippet whose language or style is
\* outside the choices is answered 400 and leaves the table unchanged.
C8_InvalidChoiceAlways400 ==
    [][(/\ Served
        /\ req'.method \in {"PUT", "PATCH"}
        /\ req'.pk \in DOMAIN snippets
        /\ InvalidChoice(req'.data))
       => resp'.status = 400 /\ snippets' = snippets]_vars

\* C8 amended: an update whose language or style is outside the choices
\* never changes the table; sent by the owner of an existing snippet it is
\* answered 400, sent by anyone else it is refused earlier with 403, or 404
\* when an authenticated user names an absent id.
C8_InvalidChoiceRejected ==
    [][(Served /\ req'.method \in {"PUT", "PATCH"} /\ InvalidChoice(req'.data))
       => /\ snippets' = snippets
          /\ resp'.status =
               IF ~is_authenticated(req'.user) THEN 403
               ELSE IF req'.pk \notin DOMAIN snippets THEN 404
               ELSE IF req'.user # snippets[req'.pk].owner THEN 403
               ELSE 400]_vars

\* The owner's update with a style outside the choices and a new, valid title
\* was answered 400 and the title was not written.
C8_Witness ==
    /\ req.method \in {"PUT", "PATCH"}
    /\ resp.status = 400
    /\ "style" \in resp.errors
    /\ "title" \in DOMAIN req.data
    /\ req.pk \in DOMAIN snippets
    /\ snippets[req.pk].title # strip(req.data["title"])

\* C9: a create by an authenticated user whose body lacks `code`, or whose
\* language or style is outside the choices, is answered 400 naming the
\* field, and no row is stored.
C9_InvalidCreateRejected ==
    [][(/\ Served
        /\ req'.view = "snippet-list"
        /\ req'.method = "POST"
        /\ is_authenticated(req'.user)
        /\ ("code" \notin DOMAIN req'.data \/ InvalidChoice(req'.data)))
       => /\ resp'.status = 400
          /\ "code" \notin DOMAIN req'.data => "code" \in resp'.errors
          /\ resp'.errors # {}
          /\ snippets' = snippets
          /\ next_id' = next_id]_vars

\* A create with a valid code and a language outside the choices was
\* answered 400.
C9_Witness ==
    /\ req.method = "POST"
    /\ is_authenticated(req.user)
    /\ "code" \in DOMAIN req.data
    /\ "language" \in resp.errors
    /\ resp.status = 400

\* C10: a list response holds every stored snippet exactly once, in its wire
\* form, in ascending order of created.
C10_ListOrderedByCreated ==
    (req.method = "GET" /\ req.view = "snippet-list")
        => /\ resp.status = 200
           /\ Len(resp.data) = Cardinality(DOMAIN snippets)
           /\ {resp.data[i].id : i \in 1..Len(resp.data)} = DOMAIN snippets
           /\ \A i \in 1..Len(resp.data) :
                 resp.data[i] = to_representation(snippets[resp.data[i].id])
           /\ \A i, j \in 1..Len(resp.data) :
                 i < j => snippets[resp.data[i].id].created
                              <= snippets[resp.data[j].id].created

\* A list of at least two snippets that differ in a writable field.
C10_Witness ==
    /\ req.method = "GET"
    /\ req.view = "snippet-list"
    /\ Len(resp.data) >= 2
    /\ resp.data[1].language # resp.data[2].language

\* The resource a GET names exists: a list always does, a detail route when
\* its row is stored.
ResourceExists ==
    CASE req.view = "snippet-detail" -> req.pk \in DOMAIN snippets
      [] req.view = "user-detail" -> req.pk \in auth_user
      [] OTHER -> TRUE

\* C11: a GET on the snippet list, a snippet, the user list or a user is
\* never refused for want of identity or ownership, whoever sends it; on an
\* existing resource it is answered 200 (404 otherwise).
C11_ReadsOpenToAll ==
    req.method = "GET"
        => /\ resp.status \notin {401, 403}
           /\ resp.status = IF ResourceExists THEN 200 ELSE 404

\* An anonymous requester read a stored snippet and got 200.
C11_Witness ==
    /\ req.method = "GET"
    /\ req.view = "snippet-detail"
    /\ ~is_authenticated(req.user)
    /\ req.pk \in DOMAIN snippets
    /\ resp.status = 200

ErrorStatuses == {400, 401, 403, 404}

\* C12: a request answered with an error status leaves the snippet table, its
\* key sequence and the user table exactly as they were.
C12_ErrorsWriteNothing ==
    [][(Served /\ resp'.status \in ErrorStatuses)
       => /\ snippets' = snippets
          /\ auth_user' = auth_user
          /\ next_id' = next_id
          /\ clock' = clock]_vars

\* The owner's update with one valid and one invalid field was answered 400.
C12_Witness ==
    /\ req.method \in {"PUT", "PATCH"}
    /\ req.pk \in DOMAIN snippets
    /\ req.user = snippets[req.pk].owner
    /\ resp.status = 400
    /\ "title" \in DOMAIN req.data
    /\ "title" \notin resp.errors

\* The ids listed under `snippets` in the representation of `user`.
UserSnippetIds(table, user) ==
    LET ids == User_to_representation(table, user).snippets
    IN {ids[i] : i \in DOMAIN ids}

\* The ids of the stored snippets whose owner is `user`.
OwnedIds(table, user) == {i \in DOMAIN table : table[i].owner = user}

\* C13: after every step the snippets list of each user's representation
\* holds, once each, exactly the ids of the stored snippets that user owns;
\* a create adds the new id to the creator's list only, a delete takes the id
\* out of every list, and the user views answer with these lists.
C13_UserListsOwnedIds ==
    [][/\ \A u \in auth_user' :
             /\ UserSnippetIds(snippets', u) = OwnedIds(snippets', u)
             /\ Len(User_to_representation(snippets', u).snippets)
                    = Cardinality(OwnedIds(snippets', u))
       /\ (Served /\ req'.method = "POST" /\ resp'.status = 201)
              => \A u \in auth_user' :
                     UserSnippetIds(snippets', u) =
                         UserSnippetIds(snippets, u)
                             \cup (IF u = req'.user THEN {next_id} ELSE {})
       /\ (Served /\ req'.method = "DELETE" /\ resp'.status = 204)
              => \A u \in auth_user' :
                     UserSnippetIds(snippets', u) =
                         UserSnippetIds(snippets, u) \ {req'.pk}
       /\ (Served /\ req'.view = "user-detail" /\ resp'.status = 200)
              => LET ids == resp'.data[1].snippets
                 IN {ids[i] : i \in DOMAIN ids} = OwnedIds(snippets, req'.pk)
       /\ (Served /\ req'.view = "user-list")
              => \A k \in DOMAIN resp'.data :
                     LET ids == resp'.data[k].snippets
                     IN {ids[i] : i \in DOMAIN ids}
                            = OwnedIds(snippets, resp'.data[k].id)]_vars

\* A user's representation lists a stored snippet while the other id is
\* deleted and the other user owns none.
C13_Witness ==
    /\ req.view = "user-detail"
    /\ resp.status = 200
    /\ resp.data[1].snippets # <<>>
    /\ \E pk \in Pks : Deleted(pk)
    /\ \E u \in auth_user : u # req.pk /\ OwnedIds(snippets, u) = {}

\* C14: every stored snippet has an owner and that owner is a stored user,
\* also once a user has been removed.
C14_OwnerIsStoredUser ==
    \A id \in DOMAIN snippets :
        /\ "owner" \in DOMAIN snippets[id]
        /\ snippets[id].owner \in auth_user

\* A user has been removed while a snippet of the remaining user is stored
\* and an earlier id is gone.
C14_Witness ==
    /\ auth_user # Users
    /\ DOMAIN snippets # {}
    /\ \E pk \in Pks : Deleted(pk)

\* The request served is a create by an authenticated user whose body
\* carries `code` and at most `language` besides.
CreateWithCodeServed ==
    /\ Served
    /\ req'.method = "POST"
    /\ is_authenticated(req'.user)
    /\ "code" \in DOMAIN req'.data
    /\ DOMAIN req'.data \subseteq {"code", "language"}

\* A GET of a stored snippet answers 200 with the stored record, whoever asks.
GetReturnsStoredRecord ==
    (Served /\ req'.method = "GET" /\ req'.view = "snippet-detail"
        /\ req'.pk \in DOMAIN snippets)
        => /\ resp'.status = 200
           /\ resp'.data = <<to_representation(snippets[req'.pk])>>

InvalidBody(method, data) ==
    /\ method \in {"PUT", "PATCH"}
    /\ \/ ~ValidValues(data)
       \/ method = "PUT" /\ "code" \notin DOMAIN data

\* C18: a PUT, PATCH or DELETE on /snippets/{id}/ is answered by the first
\* gate it fails, in the order authentication, lookup, ownership, validation:
\* without identity the authentication refusal, whether or not the id exists;
\* with identity on an absent id 404; a non-owner on a stored id 403, valid
\* body or not; the owner with an invalid body 400; otherwise success.
C18_FirstFailingGateDecides ==
    [][(Served /\ req'.view = "snippet-detail"
           /\ req'.method \in MutatingDetailMethods)
       => IF ~is_authenticated(req'.user)
          THEN /\ resp'.status \in {401, 403}
               /\ resp'.detail = "Authentication credentials were not provided."
          ELSE IF req'.pk \notin DOMAIN snippets
          THEN resp'.status = 404
          ELSE IF snippets[req'.pk].owner # req'.user
          THEN /\ resp'.status = 403
               /\ resp'.detail
                      = "You do not have permission to perform this action."
          ELSE IF InvalidBody(req'.method, req'.data)
          THEN resp'.status = 400
          ELSE resp'.status \in {200, 204}]_vars

\* A non-owner sent an invalid body to a stored snippet and got 403; the id
\* the other route would miss exists too.
C18_Witness ==
    /\ req.method \in {"PUT", "PATCH"}
    /\ req.pk \in DOMAIN snippets
    /\ is_authenticated(req.user)
    /\ req.user # snippets[req.pk].owner
    /\ InvalidBody(req.method, req.data)
    /\ resp.status = 403

\* The row is one instance saved whole by thread w: every field the
\* instance carries, and a rendering of exactly those fields.
WrittenWholeBy(w, row) ==
    /\ inflight[w].pc = "loaded"
    /\ inflight'[w].pc = "done"
    /\ \A f \in (writable_fields \cup {"owner"}) \cap DOMAIN inflight[w].instance :
          row[f] = inflight[w].instance[f]
    /\ row.highlighted = Rendering(row)

\* C16: however the steps of overlapping creates and updates interleave,
\* every row that appears or changes in the table is the instance of one
\* request, written whole: all its fields come from that request's instance
\* and its highlighted is the rendering of those same fields.
C16_RecordsWrittenWhole ==
    [][\A id \in DOMAIN snippets' :
          (id \notin DOMAIN snippets \/ snippets'[id] # snippets[id])
              => \E w \in Workers : WrittenWholeBy(w, snippets'[id])]_vars

\* One update has been saved while another thread still holds an instance of
\* the same snippet that it loaded before that save.
C16_Witness ==
    \E w1, w2 \in Workers :
        /\ inflight[w1].pc = "done"
        /\ inflight[w1].status = 200
        /\ inflight[w2].pc = "loaded"
        /\ inflight[w2].request.method \in {"PUT", "PATCH"}
        /\ inflight[w2].request.pk \in DOMAIN snippets
        /\ inflight[w2].instance.highlighted
               # snippets[inflight[w2].request.pk].highlighted

\* The authentication and ownership policy allows the request of a thread:
\* it carries an identity and, on a detail route, the identity of the owner
\* of the instance it loaded.
PolicyAllows(self) ==
    /\ is_authenticated(self.request.user)
    /\ \/ self.request.method = "POST"
       \/ self.instance.owner = self.request.user

\* C17: the snippet table changes only in a write step of a thread whose
\* request the policy allowed at its dispatch, and no thread whose request
\* the policy denies ever holds a pending write.
C17_WriteOnlyAfterAllow ==
    [][/\ snippets' # snippets
          => \E w \in Workers :
                 /\ inflight[w].pc = "loaded"
                 /\ inflight'[w].pc = "done"
                 /\ PolicyAllows(inflight[w])
       /\ \A w \in Workers :
             inflight'[w].pc = "loaded" => PolicyAllows(inflight'[w])
       /\ \A w \in Workers :
             (inflight[w].pc = "idle" /\ inflight'[w].pc = "done")
                 => snippets' = snippets]_vars

\* One thread was refused with 403 while the other, allowed, has written a
\* row.
C17_Witness ==
    \E w1, w2 \in Workers :
        /\ inflight[w1].pc = "done"
        /\ inflight[w1].status = 403
        /\ inflight[w2].pc = "done"
        /\ inflight[w2].status = 200
        /\ DOMAIN snippets # {}

\* C19: every pattern of urlpatterns names a view that views.py defines, so
\* the route of every request served is bound to its handler.
C19_EveryPatternBound ==
    /\ \A i \in DOMAIN urlpatterns : urlpatterns[i].view \in views_module
    /\ ~Idle => \E i \in DOMAIN urlpatterns :
                    /\ urlpatterns[i].name = req.view
                    /\ urlpatterns[i].view \in views_module

\* A DELETE of pk has removed the row and its 204 has been returned: no
\* thread still holds a DELETE of pk to execute or a 204 to hand back.
DeleteReturned(pk) ==
    /\ Deleted(pk)
    /\ \A w \in Workers :
          /\ ~(/\ inflight[w].pc = "loaded"
               /\ inflight[w].request.method = "DELETE"
               /\ inflight[w].request.pk = pk)
          /\ ~(inflight[w].pc = "done" /\ inflight[w].status = 204)

\* C20: once a DELETE of a snippet has returned 204 the row stays absent: no
\* later step, and no update that loaded the row before the delete, stores a
\* row under that id again.
C20_DeletedNotRecreated ==
    [][\A pk \in ConcurrentPks :
          DeleteReturned(pk) => pk \notin DOMAIN snippets']_vars

\* Thread w holds the 200 response of an update of snippet pk.
UpdateReturned(w, pk) ==
    /\ inflight[w].pc = "done"
    /\ inflight[w].status = 200
    /\ inflight[w].request.method \in {"PUT", "PATCH"}
    /\ inflight[w].request.pk = pk

\* C21: when two updates of one snippet that write disjoint fields have both
\* returned success, the stored row holds what each of them wrote: neither
\* save has put back the value it loaded for the other's field.
C21_BothWritesReflected ==
    \A w1, w2 \in Workers, pk \in DOMAIN snippets :
        (/\ w1 # w2
         /\ UpdateReturned(w1, pk)
         /\ UpdateReturned(w2, pk)
         /\ DOMAIN inflight[w1].request.data
                \cap DOMAIN inflight[w2].request.data = {})
        => \A f \in writable_fields \cap DOMAIN inflight[w1].request.data :
               snippets[pk][f]
                   = to_internal_value(f, inflight[w1].request.data[f])

UserRoutes == {"user-list", "user-detail"}

\* C22: a request to /users/ or /users/{id}/, whatever its method, body and
\* requester, and a GET on a snippet route, leaves every stored snippet and
\* user as it was; on the user routes every method but GET is answered 405.
C22_UserRoutesReadOnly ==
    [][/\ (Served /\ (req'.view \in UserRoutes \/ req'.method = "GET"))
          => /\ snippets' = snippets
             /\ auth_user' = auth_user
             /\ next_id' = next_id
             /\ clock' = clock
       /\ (Served /\ req'.view \in UserRoutes /\ req'.method # "GET")
          => resp'.status = 405]_vars

\* A PUT on a stored user whose body lists a snippet owned by the other user
\* was answered 405.
C22_Witness ==
    /\ req.view = "user-detail"
    /\ req.method = "PUT"
    /\ req.pk \in auth_user
    /\ "snippets" \in DOMAIN req.data
    /\ \E k \in DOMAIN req.data["snippets"] :
          /\ req.data["snippets"][k] \in DOMAIN snippets
          /\ snippets[req.data["snippets"][k]].owner # req.pk
    /\ resp.status = 405

====
